---- MODULE Spec2Model ----
(***************************************************************************)
(* Model of the storage module of YearCompass (src/js/storage.js): the     *)
(* in-memory cache storageData, the localStorage slot it is written to,    *)
(* the debounce timer and the error callback.                              *)
(*                                                                         *)
(* JavaScript values are tagged records, so that typeof, truthiness and    *)
(* property lookup can be computed as the engine computes them:            *)
(*   [t |-> "undefined"], [t |-> "null"], [t |-> "number", n |-> 1],       *)
(*   [t |-> "boolean", b |-> TRUE], [t |-> "string", s |-> "abc"],         *)
(*   [t |-> "string", json |-> v, indent |-> 0]  the text JSON.stringify   *)
(*                                               produces for v,           *)
(*   [t |-> "object", k |-> <<keys in own-property order>>, v |-> fields]. *)
(* Arrays and property keys that look like integers are outside the        *)
(* inputs the model enumerates.                                            *)
(***************************************************************************)
EXTENDS Integers, Sequences, FiniteSets, TLC

VARIABLES
  storageData,     \* the cache (storage.js:10); Null until initStorage runs
  onStorageError,  \* the registered error callback (storage.js:13); 0 = null
  saveTimeout,     \* the handle kept by debouncedSave (storage.js:442); 0 = null
  item,            \* localStorage[STORAGE_KEY]: Null when absent, else a string
  backend,         \* how localStorage behaves: "ok", "disabled", "quota", "error"
  timers,          \* timers pending in the event loop: records [id, due]
  now,             \* wall clock, in units of TickMs milliseconds
  calls,           \* number of public calls made so far
  last,            \* what the last call did: op, ret, threw, reports, writes
  vrArg,           \* validateAndRepairData: the candidate passed in
  vrRet,           \* validateAndRepairData: the object returned
  vrPass           \* validateAndRepairData: how many passes have run

vars == <<storageData, onStorageError, saveTimeout, item, backend, timers,
          now, calls, last, vrArg, vrRet, vrPass>>

-----------------------------------------------------------------------------
(* Bounds of the model *)

MaxCalls == 3
MaxClock == 3

(* Program constants *)

DATA_VERSION == 1
DEBOUNCE_MS == 300
TickMs == 150
DebounceTicks == DEBOUNCE_MS \div TickMs

-----------------------------------------------------------------------------
(* JavaScript values *)

\* F applied to the value of e; e is evaluated once, as the argument of a
\* JavaScript call is
Let(e, F(_)) == CHOOSE r \in {F(x) : x \in {e}} : TRUE

Undef == [t |-> "undefined"]
Null == [t |-> "null"]
Num(n) == [t |-> "number", n |-> n]
Bool(b) == [t |-> "boolean", b |-> b]
Str(s) == [t |-> "string", s |-> s]
Obj(k, v) == [t |-> "object", k |-> k, v |-> v]
EmptyObj == Obj(<<>>, [x \in {} |-> Undef])

Range(seq) == {seq[i] : i \in 1..Len(seq)}

\* typeof x
TypeOf(x0) == Let(x0, LAMBDA x : IF x.t = "null" THEN "object" ELSE x.t)

\* !!x
Truthy(x0) ==
  Let(x0, LAMBDA x :
    CASE x.t = "undefined" -> FALSE
      [] x.t = "null" -> FALSE
      [] x.t = "number" -> x.n # 0
      [] x.t = "boolean" -> x.b
      [] x.t = "string" -> IF "s" \in DOMAIN x THEN x.s # "" ELSE TRUE
      [] OTHER -> TRUE)

IsObject(x) == x.t = "object"

\* Object.keys(o)
Keys(o0) == Let(o0, LAMBDA o : IF IsObject(o) THEN o.k ELSE <<>>)

Has(o0, key) == Let(o0, LAMBDA o : IsObject(o) /\ key \in Range(o.k))

\* o[key]
Get(o0, key) == Let(o0, LAMBDA o : IF Has(o, key) THEN o.v[key] ELSE Undef)

\* o[key] = val; a new key goes last in the order of the keys
Set(o0, key, val) ==
  Let(o0, LAMBDA o :
    IF Has(o, key)
      THEN Obj(o.k, [x \in DOMAIN o.v |-> IF x = key THEN val ELSE o.v[x]])
      ELSE Obj(Append(o.k, key),
               [x \in (DOMAIN o.v) \cup {key} |-> IF x = key THEN val ELSE o.v[x]]))

\* the string a value becomes when it is used as a property key
ToPropertyKey(x0) ==
  Let(x0, LAMBDA x :
    CASE x.t = "string" -> x.s
      [] x.t = "number" -> ToString(x.n)
      [] x.t = "boolean" -> IF x.b THEN "true" ELSE "false"
      [] x.t = "null" -> "null"
      [] x.t = "undefined" -> "undefined"
      [] OTHER -> "[object Object]")

\* an object literal; properties whose value is undefined are left out
RECURSIVE MkObj(_)
MkObj(pairs0) ==
  Let(pairs0, LAMBDA pairs :
    IF pairs = <<>> THEN EmptyObj
    ELSE Let(MkObj(SubSeq(pairs, 1, Len(pairs) - 1)), LAMBDA rest :
           IF pairs[Len(pairs)][2] = Undef THEN rest
           ELSE Set(rest, pairs[Len(pairs)][1], pairs[Len(pairs)][2])))

\* delete o[key]
Delete(o0, key) ==
  Let(o0, LAMBDA o :
    IF Has(o, key)
      THEN Obj(SelectSeq(o.k, LAMBDA x : x # key),
               [x \in (DOMAIN o.v) \ {key} |-> o.v[x]])
      ELSE o)

-----------------------------------------------------------------------------
(* Dates and strings *)

\* new Date().toISOString() at clock reading n
IsoText == <<"2025-01-01T00:00:00.000Z", "2025-01-01T00:00:00.150Z",
             "2025-01-01T00:00:00.300Z", "2025-01-01T00:00:00.450Z",
             "2025-01-01T00:00:00.600Z", "2025-01-01T00:00:00.750Z",
             "2025-01-01T00:00:00.900Z", "2025-01-01T00:00:01.050Z",
             "2025-01-01T00:00:01.200Z", "2025-01-01T00:00:01.350Z">>

ToISOString(n) == Str(IsoText[n + 1])

\* yearId.replace('-', ' → '): the first dash becomes an arrow
ReplaceDash(id) ==
  CASE id = "2024-2025" -> "2024 → 2025"
    [] id = "2025-2026" -> "2025 → 2026"
    [] id = "2099-2100" -> "2099 → 2100"
    [] OTHER -> id

-----------------------------------------------------------------------------
(* getDefaultData and validateAndRepairData *)

DefaultSettings ==
  Obj(<<"theme", "fontSize", "markdownPreview">>,
      [theme |-> Str("light"), fontSize |-> Str("medium"),
       markdownPreview |-> Str("onBlur")])

getDefaultData ==
  Obj(<<"version", "currentYear", "settings", "years">>,
      [version |-> Num(DATA_VERSION), currentYear |-> Null,
       settings |-> DefaultSettings, years |-> EmptyObj])

NewSection ==
  Obj(<<"completed", "answers">>, [completed |-> Bool(FALSE), answers |-> EmptyObj])

\* !x || typeof x !== 'object'
BadObject(x0) == Let(x0, LAMBDA x : ~Truthy(x) \/ TypeOf(x) # "object")

\* In the repair steps acc is [o |-> the object so far, repaired |-> the flag]
\* and is passed as a value.

\* storage.js:127-134, one turn of the loop over Object.keys(year.sections)
RepairSection(acc, sectionId) ==
  Let(Get(acc.o, sectionId), LAMBDA section :
    IF BadObject(section)
      THEN [o |-> Set(acc.o, sectionId, NewSection), repaired |-> TRUE]
    ELSE IF BadObject(Get(section, "answers"))
      THEN [o |-> Set(acc.o, sectionId, Set(section, "answers", EmptyObj)),
            repaired |-> TRUE]
    ELSE acc)

\* storage.js:126-135, the loop over Object.keys(year.sections)
RECURSIVE RepairSections(_, _, _)
RepairSections(acc, keys, i) ==
  IF i > Len(keys) THEN acc
  ELSE Let(RepairSection(acc, keys[i]), LAMBDA next :
         RepairSections(next, keys, i + 1))

\* a faulty backfill that stamps createdAt on every pass; the round trip of
\* exportData and importData tells it from the code's
BackfillYear_Restamp(year, yearId, clock) ==
  Let(IF ~Truthy(Get(year, "id")) THEN Set(year, "id", Str(yearId)) ELSE year,
      LAMBDA y1 :
  Let(IF ~Truthy(Get(y1, "displayName"))
        THEN Set(y1, "displayName", Str(ReplaceDash(yearId))) ELSE y1,
      LAMBDA y2 :
  Let(Set(y2, "createdAt", ToISOString(clock)), LAMBDA y3 :
  IF ~Truthy(Get(y3, "lastModified"))
    THEN Set(y3, "lastModified", Get(y3, "createdAt")) ELSE y3)))

\* storage.js:116-119: a missing property is set, the flag is not
BackfillYear(year, yearId, clock) ==
  Let(IF ~Truthy(Get(year, "id")) THEN Set(year, "id", Str(yearId)) ELSE year,
      LAMBDA y1 :
  Let(IF ~Truthy(Get(y1, "displayName"))
        THEN Set(y1, "displayName", Str(ReplaceDash(yearId))) ELSE y1,
      LAMBDA y2 :
  Let(IF ~Truthy(Get(y2, "createdAt"))
        THEN Set(y2, "createdAt", ToISOString(clock)) ELSE y2,
      LAMBDA y3 :
  IF ~Truthy(Get(y3, "lastModified"))
    THEN Set(y3, "lastModified", Get(y3, "createdAt")) ELSE y3)))

\* storage.js:115-135, the body of the year loop for an entry that is an object
RepairYear(year, yearId, clock) ==
  Let(BackfillYear(year, yearId, clock), LAMBDA y4 :
  Let(BadObject(Get(y4, "sections")), LAMBDA badSections :
  Let(IF badSections THEN Set(y4, "sections", EmptyObj) ELSE y4, LAMBDA y5 :
  Let(RepairSections([o |-> Get(y5, "sections"), repaired |-> badSections],
                     Keys(Get(y5, "sections")), 1),
      LAMBDA secs :
  [o |-> Set(y5, "sections", secs.o), repaired |-> secs.repaired]))))

\* storage.js:107-135, one turn of the loop over Object.keys(data.years)
RepairYearsStep(acc, yearId, clock) ==
  Let(Get(acc.o, yearId), LAMBDA year :
    IF BadObject(year)
      THEN [o |-> Delete(acc.o, yearId), repaired |-> TRUE]
      ELSE Let(RepairYear(year, yearId, clock), LAMBDA r :
             [o |-> Set(acc.o, yearId, r.o), repaired |-> acc.repaired \/ r.repaired]))

\* storage.js:106-136, the loop over Object.keys(data.years)
RECURSIVE RepairYears(_, _, _, _)
RepairYears(acc, keys, i, clock) ==
  IF i > Len(keys) THEN acc
  ELSE Let(RepairYearsStep(acc, keys[i], clock), LAMBDA next :
         RepairYears(next, keys, i + 1, clock))

\* storage.js:83-86
FixVersion(acc) ==
  IF TypeOf(Get(acc.o, "version")) # "number"
    THEN [o |-> Set(acc.o, "version", Num(DATA_VERSION)), repaired |-> TRUE]
    ELSE acc

\* storage.js:88-91
FixSettings(acc) ==
  IF BadObject(Get(acc.o, "settings"))
    THEN [o |-> Set(acc.o, "settings", DefaultSettings), repaired |-> TRUE]
    ELSE acc

\* storage.js:93-96
FixYears(acc) ==
  IF BadObject(Get(acc.o, "years"))
    THEN [o |-> Set(acc.o, "years", EmptyObj), repaired |-> TRUE]
    ELSE acc

\* a faulty fallback that takes the first key of years
FixCurrentYear_First(acc) ==
  Let(Get(acc.o, "currentYear"), LAMBDA cy :
  Let(Get(acc.o, "years"), LAMBDA years :
    IF Truthy(cy) /\ ~Truthy(Get(years, ToPropertyKey(cy)))
      THEN [o |-> Set(acc.o, "currentYear",
                      IF Len(Keys(years)) > 0
                        THEN Str(Keys(years)[1]) ELSE Null),
            repaired |-> TRUE]
      ELSE acc))

\* storage.js:98-103
FixCurrentYear(acc) ==
  Let(Get(acc.o, "currentYear"), LAMBDA cy :
  Let(Get(acc.o, "years"), LAMBDA years :
    IF Truthy(cy) /\ ~Truthy(Get(years, ToPropertyKey(cy)))
      THEN [o |-> Set(acc.o, "currentYear",
                      IF Len(Keys(years)) > 0
                        THEN Str(Keys(years)[Len(Keys(years))]) ELSE Null),
            repaired |-> TRUE]
      ELSE acc))

\* storage.js:106-136 on the whole document
FixEachYear(acc, clock) ==
  Let(RepairYears([o |-> Get(acc.o, "years"), repaired |-> acc.repaired],
                  Keys(Get(acc.o, "years")), 1, clock),
      LAMBDA ys : [o |-> Set(acc.o, "years", ys.o), repaired |-> ys.repaired])

\* storage.js:73-143; reports is the sequence of reportStorageError types
validateAndRepairData(data0, clock) ==
  Let(data0, LAMBDA data :
    IF BadObject(data)
      THEN [valid |-> FALSE, repaired |-> FALSE, data |-> getDefaultData,
            reports |-> <<"corrupt">>]
    ELSE
      Let(FixVersion([o |-> data, repaired |-> FALSE]), LAMBDA a1 :
      Let(FixSettings(a1), LAMBDA a2 :
      Let(FixYears(a2), LAMBDA a3 :
      Let(FixCurrentYear(a3), LAMBDA a4 :
      Let(FixEachYear(a4, clock), LAMBDA a5 :
        [valid |-> TRUE, repaired |-> a5.repaired, data |-> a5.o,
         reports |-> <<>>]))))))

-----------------------------------------------------------------------------
(* Candidates for validateAndRepairData: values JSON.parse can return *)

YearIds == {"2024-2025", "2025-2026"}
AbsentYearId == "2099-2100"

RawAnswers == {Undef, Str("junk"), MkObj(<<<<"a", Str("hello")>>>>)}

RawSection ==
  {Null, Str("junk")} \cup
  {MkObj(<<<<"completed", Bool(FALSE)>>, <<"answers", a>>>>) : a \in RawAnswers}

RawSections ==
  {Undef, Str("junk"), EmptyObj} \cup
  {MkObj(<<<<"past-year", sec>>>>) : sec \in RawSection}

\* id, displayName, createdAt, lastModified of a stored year: all absent, or
\* all present
RawYearMeta ==
  {<<Undef, Undef, Undef, Undef>>,
   <<Str("2024-2025"), Str("2024 → 2025"), ToISOString(0), ToISOString(0)>>}

RawYearObject(secs) ==
  {MkObj(<<<<"id", m[1]>>, <<"displayName", m[2]>>, <<"createdAt", m[3]>>,
           <<"lastModified", m[4]>>, <<"currentSection", Str("intro")>>,
           <<"sections", s>>>>) : m \in RawYearMeta, s \in secs}

RawYear == {Null, Str("junk"), Num(7)} \cup RawYearObject(RawSections)

\* the entries tried in mappings of two years
RawYearOfTwo == {Null, Str("junk")} \cup RawYearObject({Undef, EmptyObj})

RawYears ==
  {Undef, Str("junk"), EmptyObj} \cup
  {MkObj(<<<<id, y>>>>) : id \in YearIds, y \in RawYear} \cup
  {MkObj(<<<<"2024-2025", y1>>, <<"2025-2026", y2>>>>) :
     y1 \in RawYearOfTwo, y2 \in RawYearOfTwo} \cup
  {MkObj(<<<<"2025-2026", y1>>, <<"2024-2025", y2>>>>) :
     y1 \in RawYearOfTwo, y2 \in RawYearOfTwo}

RawCurrentYear == {Undef, Null, Str(AbsentYearId)} \cup {Str(id) : id \in YearIds}

RawVersion == {Undef, Num(1), Str("1")}

RawSettings == {Undef, DefaultSettings}

RawDocument ==
  {MkObj(<<<<"version", ver>>, <<"currentYear", cy>>, <<"settings", st>>,
           <<"years", ys>>>>) :
     ver \in RawVersion, cy \in RawCurrentYear, st \in RawSettings, ys \in RawYears}

RawValue == {Null, Num(0), Num(5), Str("junk"), Bool(TRUE)} \cup RawDocument

-----------------------------------------------------------------------------
(* JSON.stringify and JSON.parse *)

\* the value a text produced by JSON.stringify(x) denotes: properties whose
\* value is undefined are not written
RECURSIVE ToJson(_)
ToJson(x0) ==
  Let(x0, LAMBDA x :
    IF IsObject(x)
      THEN Let(SelectSeq(x.k, LAMBDA key : x.v[key] # Undef), LAMBDA kept :
             Obj(kept, [key \in Range(kept) |-> ToJson(x.v[key])]))
      ELSE x)

\* JSON.stringify(x, null, indent)
JSONstringify(x, indent) == [t |-> "string", json |-> ToJson(x), indent |-> indent]

\* JSON.parse(text): texts that JSON.stringify did not produce are the
\* malformed ones ("{not json") and throw a SyntaxError
JSONparse(text0) ==
  Let(text0, LAMBDA text :
    IF text.t = "string" /\ "json" \in DOMAIN text
      THEN [ok |-> TRUE, value |-> text.json]
      ELSE [ok |-> FALSE, value |-> Undef])

-----------------------------------------------------------------------------
(* localStorage *)

\* "ok": every call succeeds; "disabled": setItem throws (disabled, private
\* mode, or too full for the probe); "quota": the probe fits but writing the
\* record throws QuotaExceededError; "error": writing the record throws
\* another error
BackendModes == {"ok", "disabled", "quota", "error"}

\* storage.js:40-50
isLocalStorageAvailable(be) == be # "disabled"

\* storage.js:29-34: the callback invocations a sequence of reports causes
Notified(reports, callback) ==
  IF callback = 0 THEN <<>>
  ELSE [i \in 1..Len(reports) |-> [cb |-> callback, type |-> reports[i]]]

\* a faulty save that reports the failed probe to the callback
saveToLocalStorage_ReportsProbe(data, it, be) ==
  IF ~isLocalStorageAvailable(be)
    THEN [ret |-> FALSE, item |-> it, reports |-> <<"unavailable">>,
          saved |-> <<FALSE>>, writes |-> <<>>]
  ELSE IF be = "ok"
    THEN Let(JSONstringify(data, 0), LAMBDA dataString :
           [ret |-> TRUE, item |-> dataString, reports |-> <<>>,
            saved |-> <<TRUE>>, writes |-> <<dataString>>])
  ELSE IF be = "quota"
    THEN [ret |-> FALSE, item |-> it, reports |-> <<"quota">>, saved |-> <<FALSE>>,
          writes |-> <<>>]
  ELSE [ret |-> FALSE, item |-> it, reports |-> <<"save">>, saved |-> <<FALSE>>,
        writes |-> <<>>]

\* a faulty save that reports success without writing the record
saveToLocalStorage_NoWrite(data, it, be) ==
  IF ~isLocalStorageAvailable(be)
    THEN [ret |-> FALSE, item |-> it, reports |-> <<>>, saved |-> <<FALSE>>,
          writes |-> <<>>]
  ELSE IF be = "ok"
    THEN [ret |-> TRUE, item |-> it, reports |-> <<>>, saved |-> <<TRUE>>,
          writes |-> <<>>]
  ELSE IF be = "quota"
    THEN [ret |-> FALSE, item |-> it, reports |-> <<"quota">>, saved |-> <<FALSE>>,
          writes |-> <<>>]
  ELSE [ret |-> FALSE, item |-> it, reports |-> <<"save">>, saved |-> <<FALSE>>,
        writes |-> <<>>]

\* a faulty save that takes a quota failure for any other failure
saveToLocalStorage_Misclassify(data, it, be) ==
  IF ~isLocalStorageAvailable(be)
    THEN [ret |-> FALSE, item |-> it, reports |-> <<>>, saved |-> <<FALSE>>,
          writes |-> <<>>]
  ELSE IF be = "ok"
    THEN Let(JSONstringify(data, 0), LAMBDA dataString :
           [ret |-> TRUE, item |-> dataString, reports |-> <<>>,
            saved |-> <<TRUE>>, writes |-> <<dataString>>])
  ELSE [ret |-> FALSE, item |-> it, reports |-> <<"save">>, saved |-> <<FALSE>>,
        writes |-> <<>>]

\* storage.js:203-232; it is the stored record before the call
saveToLocalStorage(data, it, be) ==
  IF ~isLocalStorageAvailable(be)
    THEN [ret |-> FALSE, item |-> it, reports |-> <<>>, saved |-> <<FALSE>>,
          writes |-> <<>>]
  ELSE IF be = "ok"
    THEN Let(JSONstringify(data, 0), LAMBDA dataString :
           [ret |-> TRUE, item |-> dataString, reports |-> <<>>,
            saved |-> <<TRUE>>, writes |-> <<dataString>>])
  ELSE IF be = "quota"
    THEN [ret |-> FALSE, item |-> it, reports |-> <<"quota">>, saved |-> <<FALSE>>,
          writes |-> <<>>]
  ELSE [ret |-> FALSE, item |-> it, reports |-> <<"save">>, saved |-> <<FALSE>>,
        writes |-> <<>>]

-----------------------------------------------------------------------------
(* State *)

\* what a call was seen to do: its argument and result, whether it raised
\* an exception, the types passed to reportStorageError, the callback
\* invocations this caused, the values saveToLocalStorage returned, and the
\* strings written under STORAGE_KEY
NoCall == [op |-> "none", arg |-> Undef, ret |-> Undef, threw |-> FALSE,
           reports |-> <<>>, notified |-> <<>>, saved |-> <<>>, writes |-> <<>>]

\* a call that never reaches saveToLocalStorage
NoEffects == [reports |-> <<>>, saved |-> <<>>, writes |-> <<>>]

\* the record of a call that returned
Returned(op, arg, ret, fx) ==
  [op |-> op, arg |-> arg, ret |-> ret, threw |-> FALSE, reports |-> fx.reports,
   notified |-> Notified(fx.reports, onStorageError), saved |-> fx.saved,
   writes |-> fx.writes]

\* the record of a call that raised a TypeError
Threw(op, arg) ==
  [op |-> op, arg |-> arg, ret |-> Undef, threw |-> TRUE, reports |-> <<>>,
   notified |-> <<>>, saved |-> <<>>, writes |-> <<>>]

\* vrRet before validateAndRepairData has run
NoResult == [valid |-> FALSE, repaired |-> FALSE, data |-> Undef, reports |-> <<>>]

StoreInit ==
  /\ storageData = Null
  /\ onStorageError = 0
  /\ saveTimeout = 0
  /\ timers = {}
  /\ now = 0
  /\ calls = 0
  /\ last = NoCall

storeVars == <<storageData, onStorageError, saveTimeout, item, backend, timers,
               now, calls, last>>

repairVars == <<vrArg, vrRet, vrPass>>

-----------------------------------------------------------------------------
(* validateAndRepairData as a function of its argument *)

RepairInit ==
  /\ StoreInit
  /\ item = Null
  /\ backend = "ok"
  /\ vrArg \in RawValue
  /\ vrRet = NoResult
  /\ vrPass = 0

\* validateAndRepairData(x)
Validate ==
  /\ vrPass = 0
  /\ vrRet' = validateAndRepairData(vrArg, now)
  /\ vrPass' = 1
  /\ UNCHANGED <<vrArg, storeVars>>

\* validateAndRepairData(validateAndRepairData(x).data)
Revalidate ==
  /\ vrPass = 1
  /\ vrArg' = vrRet.data
  /\ vrRet' = validateAndRepairData(vrRet.data, now)
  /\ vrPass' = 2
  /\ UNCHANGED storeVars

RepairNext == Validate \/ Revalidate

SpecRepair == RepairInit /\ [][RepairNext]_vars

\* the currentYear of a document names one of its years, or is null or absent
CurrentYearOk(doc) ==
  LET cy == Get(doc, "currentYear")
  IN \/ cy \in {Null, Undef}
     \/ cy.t = "string" /\ Has(Get(doc, "years"), ToPropertyKey(cy))

\* C1: for every object passed to validateAndRepairData, the currentYear of
\* the returned data is null, absent, or a key of the returned years mapping.
C1_CurrentYearInYears ==
  (vrPass >= 1 /\ vrRet.valid) => CurrentYearOk(vrRet.data)

\* C2: the second pass of validateAndRepairData over the data returned by the
\* first pass reports repaired = false.
C2_RepairIdempotent ==
  vrPass = 2 => vrRet.repaired = FALSE

-----------------------------------------------------------------------------
(* Inputs of the store *)

YearEntry(id, clock, sections) ==
  MkObj(<<<<"id", Str(id)>>, <<"displayName", Str(ReplaceDash(id))>>,
          <<"createdAt", ToISOString(clock)>>, <<"lastModified", ToISOString(clock)>>,
          <<"currentSection", Str("intro")>>, <<"sections", sections>>>>)

Section(answers) ==
  MkObj(<<<<"completed", Bool(FALSE)>>, <<"answers", answers>>>>)

Document(currentYear, years) ==
  MkObj(<<<<"version", Num(DATA_VERSION)>>, <<"currentYear", currentYear>>,
          <<"settings", DefaultSettings>>, <<"years", years>>>>)

\* a well-formed record with one year and one started section
GoodDocument ==
  Document(Str("2024-2025"),
    MkObj(<<<<"2024-2025",
      YearEntry("2024-2025", 0,
        MkObj(<<<<"past-year",
          Section(MkObj(<<<<"a", Str("  ")>>, <<"b", Str("hello")>>>>))>>>>))>>>>))

\* a record with structural drift: no version, no settings, a currentYear
\* that names no year, a year without id, dates or answers
DriftedDocument ==
  MkObj(<<<<"currentYear", Str(AbsentYearId)>>,
          <<"years", MkObj(<<<<"2025-2026",
             MkObj(<<<<"sections", MkObj(<<<<"past-year", Null>>>>)>>>>)>>>>)>>>>)

NotJson == Str("{not json")

InitialItems ==
  {Null, NotJson, JSONstringify(GoodDocument, 0), JSONstringify(DriftedDocument, 0)}

ImportTexts ==
  {NotJson, JSONstringify(Num(5), 2), JSONstringify(GoodDocument, 2),
   JSONstringify(DriftedDocument, 2)}

AnswerValues == {Str("  "), Str("hello")}
AnswerSections == {"past-year"}
AnswerFields == {"a"}
SettingsPatches == {MkObj(<<<<"theme", Str("dark")>>>>)}
Callbacks == {1, 2}

-----------------------------------------------------------------------------
(* The store *)

\* the page loads with some record under STORAGE_KEY and a backend whose
\* behaviour lasts the session
Init ==
  /\ StoreInit
  /\ item \in InitialItems
  /\ backend \in BackendModes
  /\ vrArg = Undef
  /\ vrRet = NoResult
  /\ vrPass = 0

CanCall == calls < MaxCalls

\* a faulty registration that keeps the callback registered first
SetStorageErrorCallback_KeepFirst(callback) ==
  /\ CanCall
  /\ onStorageError' = IF onStorageError = 0 THEN callback ELSE onStorageError
  /\ calls' = calls + 1
  /\ last' = Returned("setStorageErrorCallback", callback, Undef, NoEffects)
  /\ UNCHANGED <<storageData, saveTimeout, item, backend, timers, now, repairVars>>

\* storage.js:19-21
SetStorageErrorCallback(callback) ==
  /\ CanCall
  /\ onStorageError' = callback
  /\ calls' = calls + 1
  /\ last' = Returned("setStorageErrorCallback", callback, Undef, NoEffects)
  /\ UNCHANGED <<storageData, saveTimeout, item, backend, timers, now, repairVars>>

\* a faulty initStorage that never probes the backend
initStorage_NoProbe(it, be, clock) ==
  IF ~Truthy(it)
    THEN Let(saveToLocalStorage(getDefaultData, it, be), LAMBDA sv :
           [data |-> getDefaultData, item |-> sv.item, reports |-> sv.reports,
            saved |-> sv.saved, writes |-> sv.writes])
  ELSE IF ~JSONparse(it).ok
    THEN Let(saveToLocalStorage(getDefaultData, it, be), LAMBDA sv :
           [data |-> getDefaultData, item |-> sv.item,
            reports |-> <<"parse">> \o sv.reports, saved |-> sv.saved,
            writes |-> sv.writes])
  ELSE
    Let(validateAndRepairData(JSONparse(it).value, clock), LAMBDA vr :
      IF vr.repaired
        THEN Let(saveToLocalStorage(vr.data, it, be), LAMBDA sv :
               [data |-> vr.data, item |-> sv.item,
                reports |-> vr.reports \o sv.reports, saved |-> sv.saved,
                writes |-> sv.writes])
        ELSE [data |-> vr.data, item |-> it, reports |-> vr.reports,
              saved |-> <<>>, writes |-> <<>>])

\* a faulty initStorage that leaves a record it could not parse where it is
initStorage_KeepCorrupt(it, be, clock) ==
  IF ~isLocalStorageAvailable(be)
    THEN [data |-> getDefaultData, item |-> it, reports |-> <<"unavailable">>,
          saved |-> <<>>, writes |-> <<>>]
  ELSE IF ~Truthy(it)
    THEN Let(saveToLocalStorage(getDefaultData, it, be), LAMBDA sv :
           [data |-> getDefaultData, item |-> sv.item, reports |-> sv.reports,
            saved |-> sv.saved, writes |-> sv.writes])
  ELSE IF ~JSONparse(it).ok
    THEN [data |-> getDefaultData, item |-> it, reports |-> <<"parse">>,
          saved |-> <<>>, writes |-> <<>>]
  ELSE
    Let(validateAndRepairData(JSONparse(it).value, clock), LAMBDA vr :
      IF vr.repaired
        THEN Let(saveToLocalStorage(vr.data, it, be), LAMBDA sv :
               [data |-> vr.data, item |-> sv.item,
                reports |-> vr.reports \o sv.reports, saved |-> sv.saved,
                writes |-> sv.writes])
        ELSE [data |-> vr.data, item |-> it, reports |-> vr.reports,
              saved |-> <<>>, writes |-> <<>>])

\* storage.js:150-197: the cache, the record, the reports and the writes
\* initStorage leaves
initStorage(it, be, clock) ==
  IF ~isLocalStorageAvailable(be)
    THEN [data |-> getDefaultData, item |-> it, reports |-> <<"unavailable">>,
          saved |-> <<>>, writes |-> <<>>]
  ELSE IF ~Truthy(it)
    THEN Let(saveToLocalStorage(getDefaultData, it, be), LAMBDA sv :
           [data |-> getDefaultData, item |-> sv.item, reports |-> sv.reports,
            saved |-> sv.saved, writes |-> sv.writes])
  ELSE IF ~JSONparse(it).ok
    THEN Let(saveToLocalStorage(getDefaultData, it, be), LAMBDA sv :
           [data |-> getDefaultData, item |-> sv.item,
            reports |-> <<"parse">> \o sv.reports, saved |-> sv.saved,
            writes |-> sv.writes])
  ELSE
    Let(validateAndRepairData(JSONparse(it).value, clock), LAMBDA vr :
      IF vr.repaired
        THEN Let(saveToLocalStorage(vr.data, it, be), LAMBDA sv :
               [data |-> vr.data, item |-> sv.item,
                reports |-> vr.reports \o sv.reports, saved |-> sv.saved,
                writes |-> sv.writes])
        ELSE [data |-> vr.data, item |-> it, reports |-> vr.reports,
              saved |-> <<>>, writes |-> <<>>])

InitStorage ==
  /\ CanCall
  /\ storageData = Null
  /\ \E r \in {initStorage(item, backend, now)} :
        /\ storageData' = r.data
        /\ item' = r.item
        /\ last' = Returned("initStorage", Undef, r.data, r)
  /\ calls' = calls + 1
  /\ UNCHANGED <<onStorageError, saveTimeout, backend, timers, now, repairVars>>

\* storage.js:258-260
ExportData ==
  /\ CanCall
  /\ last' = Returned("exportData", Undef, JSONstringify(storageData, 2), NoEffects)
  /\ calls' = calls + 1
  /\ UNCHANGED <<storageData, onStorageError, saveTimeout, item, backend, timers,
                 now, repairVars>>

\* a faulty importData that saves before it replaces the cache
importData_SaveFirst(jsonString, data, it, be, clock) ==
  IF ~JSONparse(jsonString).ok
    THEN [data |-> data, item |-> it, success |-> FALSE,
          message |-> "The file is not valid JSON data.",
          reports |-> <<>>, saved |-> <<>>, writes |-> <<>>]
  ELSE
    Let(validateAndRepairData(JSONparse(jsonString).value, clock), LAMBDA vr :
      IF ~vr.valid
        THEN [data |-> data, item |-> it, success |-> FALSE,
              message |-> "The imported data is not valid YearCompass data.",
              reports |-> vr.reports, saved |-> <<>>, writes |-> <<>>]
        ELSE Let(saveToLocalStorage(data, it, be), LAMBDA sv :
               [data |-> vr.data, item |-> sv.item, success |-> sv.ret,
                message |-> IF sv.ret THEN "Data imported successfully."
                            ELSE "Could not save imported data. Storage may be full.",
                reports |-> vr.reports \o sv.reports, saved |-> sv.saved,
                writes |-> sv.writes]))

\* a faulty importData that answers a non-object as it answers a text that
\* does not parse
importData_OneMessage(jsonString, data, it, be, clock) ==
  IF ~JSONparse(jsonString).ok
    THEN [data |-> data, item |-> it, success |-> FALSE,
          message |-> "The file is not valid JSON data.",
          reports |-> <<>>, saved |-> <<>>, writes |-> <<>>]
  ELSE
    Let(validateAndRepairData(JSONparse(jsonString).value, clock), LAMBDA vr :
      IF ~vr.valid
        THEN [data |-> data, item |-> it, success |-> FALSE,
              message |-> "The file is not valid JSON data.",
              reports |-> vr.reports, saved |-> <<>>, writes |-> <<>>]
        ELSE Let(saveToLocalStorage(vr.data, it, be), LAMBDA sv :
               [data |-> vr.data, item |-> sv.item, success |-> sv.ret,
                message |-> IF sv.ret THEN "Data imported successfully."
                            ELSE "Could not save imported data. Storage may be full.",
                reports |-> vr.reports \o sv.reports, saved |-> sv.saved,
                writes |-> sv.writes]))

\* storage.js:267-287: the cache, the record and the result importData leaves
importData(jsonString, data, it, be, clock) ==
  IF ~JSONparse(jsonString).ok
    THEN [data |-> data, item |-> it, success |-> FALSE,
          message |-> "The file is not valid JSON data.",
          reports |-> <<>>, saved |-> <<>>, writes |-> <<>>]
  ELSE
    Let(validateAndRepairData(JSONparse(jsonString).value, clock), LAMBDA vr :
      IF ~vr.valid
        THEN [data |-> data, item |-> it, success |-> FALSE,
              message |-> "The imported data is not valid YearCompass data.",
              reports |-> vr.reports, saved |-> <<>>, writes |-> <<>>]
        ELSE Let(saveToLocalStorage(vr.data, it, be), LAMBDA sv :
               [data |-> vr.data, item |-> sv.item, success |-> sv.ret,
                message |-> IF sv.ret THEN "Data imported successfully."
                            ELSE "Could not save imported data. Storage may be full.",
                reports |-> vr.reports \o sv.reports, saved |-> sv.saved,
                writes |-> sv.writes]))

ImportData(jsonString) ==
  /\ CanCall
  /\ \E r \in {importData(jsonString, storageData, item, backend, now)} :
        /\ storageData' = r.data
        /\ item' = r.item
        /\ last' = Returned("importData", jsonString,
                            [success |-> r.success, message |-> r.message], r)
  /\ calls' = calls + 1
  /\ UNCHANGED <<onStorageError, saveTimeout, backend, timers, now, repairVars>>

\* the shape shared by the calls that change the cache and then call
\* saveToLocalStorage at once; a call on a null cache raises a TypeError
ImmediateCall(op, arg, newData) ==
  /\ CanCall
  /\ IF storageData = Null
       THEN /\ last' = Threw(op, arg)
            /\ UNCHANGED <<storageData, item>>
       ELSE \E data \in {newData} :
            \E sv \in {saveToLocalStorage(data, item, backend)} :
               /\ storageData' = data
               /\ item' = sv.item
               /\ last' = Returned(op, arg, Undef, sv)
  /\ calls' = calls + 1
  /\ UNCHANGED <<onStorageError, saveTimeout, backend, timers, now, repairVars>>

\* a faulty setCurrentYear that does not look the id up
SetCurrentYear_Unchecked(yearId) ==
  ImmediateCall("setCurrentYear", yearId,
                Set(storageData, "currentYear", Str(yearId)))

\* storage.js:313-318
SetCurrentYear(yearId) ==
  IF storageData # Null /\ ~Truthy(Get(Get(storageData, "years"), yearId))
    THEN /\ CanCall
         /\ last' = Returned("setCurrentYear", yearId, Undef, NoEffects)
         /\ calls' = calls + 1
         /\ UNCHANGED <<storageData, onStorageError, saveTimeout, item, backend,
                        timers, now, repairVars>>
    ELSE ImmediateCall("setCurrentYear", yearId,
                       Set(storageData, "currentYear", Str(yearId)))

\* a faulty createNewYear that names the current year and stores no entry
createNewYear_CurrentOnly(data, yearId, clock) ==
  Set(data, "currentYear", Str(yearId))

\* a faulty createNewYear that does not make the new year the current one
createNewYear_KeepsCurrent(data, yearId, clock) ==
  Let(MkObj(<<<<"id", Str(yearId)>>,
              <<"displayName", Str(ReplaceDash(yearId))>>,
              <<"createdAt", ToISOString(clock)>>,
              <<"lastModified", ToISOString(clock)>>,
              <<"currentSection", Str("intro")>>,
              <<"sections", EmptyObj>>>>),
      LAMBDA entry : Set(data, "years", Set(Get(data, "years"), yearId, entry)))

\* storage.js:325-342
createNewYear(data, yearId, clock) ==
  Let(MkObj(<<<<"id", Str(yearId)>>,
              <<"displayName", Str(ReplaceDash(yearId))>>,
              <<"createdAt", ToISOString(clock)>>,
              <<"lastModified", ToISOString(clock)>>,
              <<"currentSection", Str("intro")>>,
              <<"sections", EmptyObj>>>>),
      LAMBDA entry :
        Set(Set(data, "years", Set(Get(data, "years"), yearId, entry)),
            "currentYear", Str(yearId)))

CreateNewYear(yearId) ==
  ImmediateCall("createNewYear", yearId, createNewYear(storageData, yearId, now))

\* storage.js:359-363
saveYear(data, yearId, entry, clock) ==
  Set(data, "years",
      Set(Get(data, "years"), yearId, Set(entry, "lastModified", ToISOString(clock))))

SaveYear(yearId, entry) ==
  ImmediateCall("saveYear", [yearId |-> yearId, data |-> entry],
                saveYear(storageData, yearId, entry, now))

\* { ...a, ...b }
RECURSIVE Spread(_, _, _)
Spread(a0, b, i) ==
  Let(a0, LAMBDA a :
    IF i > Len(Keys(b)) THEN a
    ELSE Spread(Set(a, Keys(b)[i], Get(b, Keys(b)[i])), b, i + 1))

\* storage.js:399-402
saveSettings(data, settings) ==
  Let(Get(data, "settings"), LAMBDA old :
    Set(data, "settings", Spread(Spread(EmptyObj, old, 1), settings, 1)))

SaveSettings(settings) ==
  ImmediateCall("saveSettings", settings, saveSettings(storageData, settings))

\* storage.js:293-298
getCurrentYear(data) ==
  IF ~Truthy(data) \/ ~Truthy(Get(data, "currentYear")) THEN Null
  ELSE Let(Get(Get(data, "years"), ToPropertyKey(Get(data, "currentYear"))),
           LAMBDA year : IF Truthy(year) THEN year ELSE Null)

\* String.prototype.trim on the strings the answers take
Trim(s) ==
  CASE s \in {"", "  ", "   "} -> ""
    [] s = " hi " -> "hi"
    [] OTHER -> s

\* a faulty test of an answer that does not trim
AnswerFilled_NoTrim(value) ==
  Truthy(value) /\ TypeOf(value) = "string"

\* storage.js:436-438: the test of one answer
AnswerFilled(value) ==
  Truthy(value) /\ TypeOf(value) = "string" /\ Trim(value.s) # ""

\* storage.js:431-439: threw when year.sections is undefined or null;
\* Object.values of a string is its characters, of a number or a boolean
\* nothing
isSectionStarted(data, sectionId) ==
  Let(getCurrentYear(data), LAMBDA year :
    IF year = Null THEN [threw |-> FALSE, ret |-> FALSE]
    ELSE IF Get(year, "sections") \in {Undef, Null}
      THEN [threw |-> TRUE, ret |-> FALSE]
    ELSE
      Let(Get(Get(Get(year, "sections"), sectionId), "answers"), LAMBDA answers :
        IF ~Truthy(answers) THEN [threw |-> FALSE, ret |-> FALSE]
        ELSE IF IsObject(answers)
          THEN [threw |-> FALSE,
                ret |-> \E key \in Range(Keys(answers)) :
                           AnswerFilled(Get(answers, key))]
        ELSE [threw |-> FALSE,
              ret |-> TypeOf(answers) = "string" /\ Trim(answers.s) # ""]))

\* storage.js:304-307
getAllYears(data) ==
  IF ~Truthy(data) THEN <<>> ELSE Keys(Get(data, "years"))

\* storage.js:349-352
loadYear(data, yearId) ==
  IF ~Truthy(data) THEN Null
  ELSE Let(Get(Get(data, "years"), yearId), LAMBDA year :
         IF Truthy(year) THEN year ELSE Null)

\* storage.js:391-393
getSettings(data) ==
  IF data \in {Null, Undef} \/ ~Truthy(Get(data, "settings"))
    THEN DefaultSettings
    ELSE Get(data, "settings")

\* storage.js:408-411
getCurrentSection(data) ==
  Let(getCurrentYear(data), LAMBDA year :
    IF year # Null /\ Truthy(Get(year, "currentSection"))
      THEN Get(year, "currentSection")
      ELSE Str("intro"))

\* setTimeout hands out a handle that no pending timer uses
FreshId(pending) ==
  IF pending = {} THEN 1
  ELSE 1 + CHOOSE m \in {t.id : t \in pending} : \A t \in pending : t.id <= m

\* a faulty debouncedSave that never clears the timer it set before
debouncedSave_NoClear(pending, handle, clock) ==
  Let(FreshId(pending), LAMBDA id :
    [timers |-> pending \cup {[id |-> id, due |-> clock + DebounceTicks]},
     saveTimeout |-> id])

\* storage.js:443-451: clearTimeout of the handle kept, then setTimeout(.., 300)
debouncedSave(pending, handle, clock) ==
  Let(IF handle # 0 THEN {t \in pending : t.id # handle} ELSE pending, LAMBDA kept :
    Let(FreshId(kept), LAMBDA id :
      [timers |-> kept \cup {[id |-> id, due |-> clock + DebounceTicks]},
       saveTimeout |-> id]))

\* a faulty shape that schedules the deferred write even when the call
\* returned before changing anything
DebouncedCall_AlwaysSchedule(op, arg, changed, throws, newData) ==
  /\ CanCall
  /\ now + DebounceTicks <= MaxClock
  /\ IF throws
       THEN /\ last' = Threw(op, arg)
            /\ UNCHANGED <<storageData, timers, saveTimeout>>
       ELSE \E d \in {debouncedSave(timers, saveTimeout, now)} :
               /\ storageData' = IF changed THEN newData ELSE storageData
               /\ timers' = d.timers
               /\ saveTimeout' = d.saveTimeout
               /\ last' = Returned(op, arg, Undef, NoEffects)
  /\ calls' = calls + 1
  /\ UNCHANGED <<onStorageError, item, backend, now, repairVars>>

\* the shape shared by the calls that change the cache and then call
\* debouncedSave; changed is FALSE when the call returns before changing
\* anything, throws when it raises a TypeError
DebouncedCall(op, arg, changed, throws, newData) ==
  /\ CanCall
  /\ now + DebounceTicks <= MaxClock
  /\ IF throws
       THEN /\ last' = Threw(op, arg)
            /\ UNCHANGED <<storageData, timers, saveTimeout>>
       ELSE IF ~changed
         THEN /\ last' = Returned(op, arg, Undef, NoEffects)
              /\ UNCHANGED <<storageData, timers, saveTimeout>>
         ELSE \E d \in {debouncedSave(timers, saveTimeout, now)} :
                 /\ storageData' = newData
                 /\ timers' = d.timers
                 /\ saveTimeout' = d.saveTimeout
                 /\ last' = Returned(op, arg, Undef, NoEffects)
  /\ calls' = calls + 1
  /\ UNCHANGED <<onStorageError, item, backend, now, repairVars>>

\* a faulty saveAnswer that starts the section afresh on every call
saveAnswer_FreshSection(data, yearId, sectionId, fieldId, value, clock) ==
  Let(Get(Get(data, "years"), yearId), LAMBDA year :
  Let(Get(year, "sections"), LAMBDA sections :
  Let(Set(NewSection, "answers", Set(EmptyObj, fieldId, value)),
      LAMBDA section1 :
  Let(Set(Set(year, "sections", Set(sections, sectionId, section1)),
          "lastModified", ToISOString(clock)),
      LAMBDA year2 :
  Set(data, "years", Set(Get(data, "years"), yearId, year2))))))

\* storage.js:372-381
saveAnswer(data, yearId, sectionId, fieldId, value, clock) ==
  Let(Get(Get(data, "years"), yearId), LAMBDA year :
  Let(Get(year, "sections"), LAMBDA sections :
  Let(IF Truthy(Get(sections, sectionId)) THEN Get(sections, sectionId) ELSE NewSection,
      LAMBDA section :
  Let(Set(section, "answers", Set(Get(section, "answers"), fieldId, value)),
      LAMBDA section1 :
  Let(Set(Set(year, "sections", Set(sections, sectionId, section1)),
          "lastModified", ToISOString(clock)),
      LAMBDA year2 :
  Set(data, "years", Set(Get(data, "years"), yearId, year2)))))))

\* storage.js:372-385
SaveAnswer(yearId, sectionId, fieldId, value) ==
  \E year \in {Get(Get(storageData, "years"), yearId)} :
  \E section \in {Get(Get(year, "sections"), sectionId)} :
    DebouncedCall("saveAnswer",
      [yearId |-> yearId, sectionId |-> sectionId, fieldId |-> fieldId,
       value |-> value],
      Truthy(year),
      \/ storageData = Null
      \/ Truthy(year) /\ ~IsObject(Get(year, "sections"))
      \/ Truthy(year) /\ Truthy(section) /\ ~IsObject(Get(section, "answers")),
      saveAnswer(storageData, yearId, sectionId, fieldId, value, now))

\* storage.js:417-421
saveCurrentSection(data, sectionId, clock) ==
  Let(ToPropertyKey(Get(data, "currentYear")), LAMBDA yearId :
  Let(Set(Set(getCurrentYear(data), "currentSection", Str(sectionId)),
          "lastModified", ToISOString(clock)),
      LAMBDA year2 :
  Set(data, "years", Set(Get(data, "years"), yearId, year2))))

\* storage.js:417-424
SaveCurrentSection(sectionId) ==
  DebouncedCall("saveCurrentSection", sectionId,
    getCurrentYear(storageData) # Null, FALSE,
    saveCurrentSection(storageData, sectionId, now))

\* a faulty timer callback that clears the timer and saves nothing
TimerFire_Lost ==
  \E t \in timers :
    /\ t.due <= now
    /\ last' = Returned("timer", Undef, Undef, NoEffects)
    /\ timers' = timers \ {t}
    /\ saveTimeout' = 0
    /\ UNCHANGED <<storageData, item, onStorageError, backend, now, calls,
                   repairVars>>

\* storage.js:447-450: the callback of a timer that is due
TimerFire ==
  \E t \in timers :
    /\ t.due <= now
    /\ \E sv \in {saveToLocalStorage(storageData, item, backend)} :
          /\ item' = sv.item
          /\ last' = Returned("timer", Undef, Undef, sv)
    /\ timers' = timers \ {t}
    /\ saveTimeout' = 0
    /\ UNCHANGED <<storageData, onStorageError, backend, now, calls, repairVars>>

\* time passes; a timer that is due runs before the clock moves on
Tick ==
  /\ now < MaxClock
  /\ \A t \in timers : t.due > now
  /\ now' = now + 1
  /\ UNCHANGED <<storageData, onStorageError, saveTimeout, item, backend, timers,
                 calls, last, repairVars>>

SectionNames == {"past-year"}

Next ==
  \/ InitStorage
  \/ \E cb \in Callbacks : SetStorageErrorCallback(cb)
  \/ ExportData
  \/ \E text \in ImportTexts : ImportData(text)
  \/ (last.op = "exportData" /\ ImportData(last.ret))
  \/ \E yearId \in YearIds : SetCurrentYear(yearId)
  \/ \E yearId \in YearIds : CreateNewYear(yearId)
  \/ \E yearId \in YearIds : SaveYear(yearId, YearEntry(yearId, 0, EmptyObj))
  \/ \E patch \in SettingsPatches : SaveSettings(patch)
  \/ \E yearId \in YearIds, sectionId \in AnswerSections, fieldId \in AnswerFields,
        value \in AnswerValues : SaveAnswer(yearId, sectionId, fieldId, value)
  \/ \E sectionId \in SectionNames : SaveCurrentSection(sectionId)
  \/ TimerFire
  \/ Tick

Spec == Init /\ [][Next]_vars

-----------------------------------------------------------------------------
(* The operations that only read the cache *)

\* what the fields of a section hold: strings, blank or not, and values
\* that are no strings
ReadValues ==
  {Str(""), Str("  "), Str("   "), Str("hello"), Str(" hi "), Num(5), Null,
   Bool(TRUE)}

ReadAnswers ==
  {EmptyObj} \cup {MkObj(<<<<"a", v>>>>) : v \in ReadValues}
    \cup {MkObj(<<<<"a", v1>>, <<"b", v2>>>>) : v1 \in ReadValues, v2 \in ReadValues}

ReadSectionMaps ==
  {EmptyObj} \cup {MkObj(<<<<"past-year", Section(a)>>>>) : a \in ReadAnswers}

\* caches the store can hold: none, no current year, a current year that
\* names no entry, and a current year with each of the section mappings
ReadDocuments ==
  {Null, getDefaultData,
   Document(Str(AbsentYearId), MkObj(<<<<"2024-2025",
                                  YearEntry("2024-2025", 0, EmptyObj)>>>>))}
    \cup {Document(Str("2024-2025"),
                   MkObj(<<<<"2024-2025", YearEntry("2024-2025", 0, secs)>>>>)) :
            secs \in ReadSectionMaps}

ReadSections == {"past-year", "year-ahead"}

ReadInit ==
  /\ storageData \in ReadDocuments
  /\ onStorageError = 0
  /\ saveTimeout = 0
  /\ timers = {}
  /\ now = 0
  /\ calls = 0
  /\ last = NoCall
  /\ item = Null
  /\ backend = "ok"
  /\ vrArg = Undef
  /\ vrRet = NoResult
  /\ vrPass = 0

\* the shape shared by the operations that assign nothing
ReadCall(op, arg, ret) ==
  /\ CanCall
  /\ last' = Returned(op, arg, ret, NoEffects)
  /\ calls' = calls + 1
  /\ UNCHANGED <<storageData, onStorageError, saveTimeout, item, backend, timers,
                 now, repairVars>>

\* storage.js:293-298
GetCurrentYear == ReadCall("getCurrentYear", Undef, getCurrentYear(storageData))

\* storage.js:304-307
GetAllYears == ReadCall("getAllYears", Undef, getAllYears(storageData))

\* storage.js:349-352
LoadYear(yearId) == ReadCall("loadYear", yearId, loadYear(storageData, yearId))

\* storage.js:391-393
GetSettings == ReadCall("getSettings", Undef, getSettings(storageData))

\* storage.js:408-411
GetCurrentSection ==
  ReadCall("getCurrentSection", Undef, getCurrentSection(storageData))

\* storage.js:431-439
IsSectionStarted(sectionId) ==
  \E r \in {isSectionStarted(storageData, sectionId)} :
    /\ CanCall
    /\ last' = IF r.threw THEN Threw("isSectionStarted", sectionId)
               ELSE Returned("isSectionStarted", sectionId, r.ret, NoEffects)
    /\ calls' = calls + 1
    /\ UNCHANGED <<storageData, onStorageError, saveTimeout, item, backend, timers,
                   now, repairVars>>

ReadNext ==
  \/ GetCurrentYear
  \/ GetAllYears
  \/ \E yearId \in YearIds : LoadYear(yearId)
  \/ GetSettings
  \/ GetCurrentSection
  \/ \E sectionId \in ReadSections : IsSectionStarted(sectionId)

SpecReads == ReadInit /\ [][ReadNext]_vars

\* the store on an empty backend that accepts every write; time passes and
\* a timer that is due runs
LiveInit ==
  /\ Init
  /\ item = Null
  /\ backend = "ok"

SpecLive == LiveInit /\ [][Next]_vars /\ WF_vars(TimerFire) /\ WF_vars(Tick)

\* the page is closed: the module's variables and its pending timer are gone,
\* the record under STORAGE_KEY stays; no handler of the sources runs at that
\* moment (none listens for beforeunload, pagehide or visibilitychange)
Unload ==
  /\ storageData # Null
  /\ storageData' = Null
  /\ onStorageError' = 0
  /\ saveTimeout' = 0
  /\ timers' = {}
  /\ last' = [NoCall EXCEPT !.op = "unload"]
  /\ UNCHANGED <<item, backend, now, calls, repairVars>>

NextUnload == Next \/ Unload

SpecUnload == Init /\ [][NextUnload]_vars

-----------------------------------------------------------------------------
(* initStorage over the records a browser can hold *)

StoredRecords ==
  {Null, Str(""), NotJson} \cup {JSONstringify(x, 0) : x \in RawValue}

StartupInit ==
  /\ storageData = Null
  /\ onStorageError \in {0} \cup Callbacks
  /\ saveTimeout = 0
  /\ timers = {}
  /\ now = 0
  /\ calls = 0
  /\ last = NoCall
  /\ item \in StoredRecords
  /\ backend \in BackendModes
  /\ vrArg = Undef
  /\ vrRet = NoResult
  /\ vrPass = 0

StartupNext == InitStorage

SpecStartup == StartupInit /\ [][StartupNext]_vars

-----------------------------------------------------------------------------
(* Properties *)

\* a step that is a public call
CallStep == calls' = calls + 1

\* a step that runs the callback of the debounce timer
TimerStep == Cardinality(timers') < Cardinality(timers)

\* the data-model invariants of the cache: version is a number, settings is
\* an object, years is an object whose entries are objects, every section
\* has an answers object, currentYear is null or a key of years
SectionsOk(year) ==
  \A sectionId \in Range(Keys(Get(year, "sections"))) :
    /\ ~BadObject(Get(Get(year, "sections"), sectionId))
    /\ ~BadObject(Get(Get(Get(year, "sections"), sectionId), "answers"))

DocInvariants(doc) ==
  /\ IsObject(doc)
  /\ TypeOf(Get(doc, "version")) = "number"
  /\ ~BadObject(Get(doc, "settings"))
  /\ ~BadObject(Get(doc, "years"))
  /\ \A yearId \in Range(Keys(Get(doc, "years"))) :
       /\ ~BadObject(Get(Get(doc, "years"), yearId))
       /\ ~BadObject(Get(Get(Get(doc, "years"), yearId), "sections"))
       /\ SectionsOk(Get(Get(doc, "years"), yearId))
  /\ CurrentYearOk(doc)

\* a valid RootDocument: the invariants hold and every year entry has its
\* id, displayName, createdAt and lastModified
DocValid(doc) ==
  /\ DocInvariants(doc)
  /\ \A yearId \in Range(Keys(Get(doc, "years"))) :
       \A field \in {"id", "displayName", "createdAt", "lastModified"} :
         Truthy(Get(Get(Get(doc, "years"), yearId), field))

\* C3: whenever importData, called on an initialized store, returns
\* success:false, for any of its failure reasons, the cache after the call
\* is the cache before the call.
C3_FailedImportKeepsCache ==
  [][(CallStep /\ storageData # Null /\ last'.op = "importData"
        /\ ~last'.ret.success)
       => storageData' = storageData]_vars

\* C4: importing what exportData returned for a valid cache, with a backend
\* that accepts writes, returns success:true and leaves the cache equal to
\* what it was.
C4_RoundTrip ==
  [][(CallStep /\ last.op = "exportData" /\ last'.op = "importData"
        /\ last'.arg = last.ret /\ backend = "ok" /\ DocValid(storageData))
       => (last'.ret.success /\ storageData' = storageData)]_vars

\* an import of the cache's own export has succeeded; the text is none of
\* the files the model imports otherwise
W4_RoundTripDone ==
  /\ last.op = "importData"
  /\ last.ret.success
  /\ last.arg = JSONstringify(storageData, 2)
  /\ last.arg \notin ImportTexts
  /\ Len(Keys(Get(storageData, "years"))) > 0

\* a saveAnswer or saveCurrentSection call that goes on to change the cache
DebouncedStep ==
  /\ CallStep
  /\ ~last'.threw
  /\ \/ /\ last'.op = "saveAnswer"
        /\ Truthy(Get(Get(storageData, "years"), last'.arg.yearId))
     \/ /\ last'.op = "saveCurrentSection"
        /\ getCurrentYear(storageData) # Null

\* the value saveAnswer was given is the one the cache holds
AnswerStored(doc, arg) ==
  Get(Get(Get(Get(Get(Get(doc, "years"), arg.yearId), "sections"),
              arg.sectionId), "answers"), arg.fieldId) = arg.value

\* C5: a saveAnswer/saveCurrentSection call writes nothing and leaves exactly
\* one deferred write pending, due 300 ms after that call, whatever was
\* pending before; at most one deferred write is pending at any time; the
\* deferred write runs when it is due and, when the backend accepts it, is
\* the one write of the record, holding the cache with the last value set.
C5_DebounceCoalesces ==
  /\ [](/\ Cardinality(timers) <= 1
        /\ \A t \in timers : t.id = saveTimeout
        /\ (timers = {} => saveTimeout = 0))
  /\ [][DebouncedStep =>
          /\ item' = item
          /\ last'.writes = <<>>
          /\ timers' = {[id |-> saveTimeout', due |-> now + DebounceTicks]}
          /\ (last'.op = "saveAnswer" => AnswerStored(storageData', last'.arg))]_vars
  /\ [][TimerStep =>
          /\ \A t \in timers : t.due = now
          /\ timers' = {}
          /\ storageData' = storageData
          /\ (backend = "ok" =>
                /\ last'.writes = <<JSONstringify(storageData, 0)>>
                /\ item' = JSONstringify(storageData, 0))]_vars

\* two debounced calls made after initStorage, the later one at clock
\* now - DebounceTicks, have been written by one timer
W5_BurstWritten ==
  /\ last.op = "timer"
  /\ calls = 3
  /\ last.writes = <<item>>
  /\ getCurrentYear(storageData) # Null
  /\ Get(getCurrentYear(storageData), "currentSection") = Str("past-year")
  /\ Get(getCurrentYear(storageData), "lastModified") = ToISOString(now - DebounceTicks)
  /\ Get(Get(Get(Get(getCurrentYear(storageData), "sections"), "past-year"),
             "answers"), "a") = Str("hello")
  /\ now - DebounceTicks > 0

\* C6: every write of the record stores the serialization of the cache as
\* it is when the write happens, whichever call or timer makes it.
C6_WritesAreCurrent ==
  last.writes # <<>> =>
    /\ last.writes = <<item>>
    /\ item = JSONstringify(storageData, 0)

\* a timer set by saveAnswer at clock 0 has written after createNewYear
\* wrote at clock 1
W6_TimerAfterImmediate ==
  /\ last.op = "timer"
  /\ last.writes # <<>>
  /\ Get(Get(Get(storageData, "years"), "2025-2026"), "createdAt") = ToISOString(1)
  /\ Get(Get(Get(storageData, "years"), "2024-2025"), "lastModified") = ToISOString(0)
  /\ Get(Get(Get(Get(Get(Get(storageData, "years"), "2024-2025"), "sections"),
                 "past-year"), "answers"), "a") = Str("hello")

\* C7: whenever saveToLocalStorage runs while the write of the record
\* throws a quota error, it returns false, nothing is thrown, "quota" is
\* reported to the registered callback, the record is untouched and the
\* cache is as the caller left it (unchanged when the caller is the timer).
C7_QuotaHandled ==
  [][((CallStep \/ TimerStep) /\ backend = "quota" /\ last'.saved # <<>>) =>
       /\ last'.saved = <<FALSE>>
       /\ ~last'.threw
       /\ last'.reports # <<>>
       /\ last'.reports[Len(last'.reports)] = "quota"
       /\ (onStorageError # 0 =>
             last'.notified[Len(last'.notified)] =
               [cb |-> onStorageError, type |-> "quota"])
       /\ item' = item
       /\ (TimerStep => storageData' = storageData)]_vars

\* the timer's write was refused for quota and a callback was told
W7_QuotaReported ==
  /\ last.op = "timer"
  /\ last.saved = <<FALSE>>
  /\ last.notified = <<[cb |-> 1, type |-> "quota"]>>
  /\ item # JSONstringify(storageData, 0)

C9_CorruptJson ==
  [][(CallStep /\ last'.op = "initStorage" /\ isLocalStorageAvailable(backend)
        /\ Truthy(item) /\ ~JSONparse(item).ok) =>
       /\ ~last'.threw
       /\ last'.reports # <<>>
       /\ last'.reports[1] = "parse"
       /\ last'.ret = getDefaultData
       /\ storageData' = getDefaultData
       /\ Get(storageData', "years") = EmptyObj
       /\ Get(storageData', "currentYear") = Null
       /\ (backend = "ok" => item' = JSONstringify(getDefaultData, 0))]_vars

\* the corrupt record has been replaced by the default document
W9_CorruptReplaced ==
  /\ last.op = "initStorage"
  /\ last.reports = <<"parse">>
  /\ last.notified = <<[cb |-> 1, type |-> "parse"]>>
  /\ item = JSONstringify(getDefaultData, 0)
  /\ last.writes = <<item>>

\* C10: when initStorage has returned, whatever the backend held, the cache
\* is non-null and satisfies the five data-model invariants.
C10_InitPostcondition ==
  last.op = "initStorage" => (storageData # Null /\ DocInvariants(storageData))

\* C11: no public operation raises an exception, in any state, the state
\* before initStorage has run included.
C11_NeverThrows == ~last.threw

\* C12: when the page is closed after saveAnswer returned with the answer in
\* the cache, and the backend accepts writes, the stored record holds that
\* answer.
C12_UnloadKeepsAnswer ==
  [][(last'.op = "unload" /\ last.op = "saveAnswer" /\ ~last.threw
        /\ AnswerStored(storageData, last.arg) /\ backend = "ok")
       => AnswerStored(JSONparse(item').value, last.arg)]_vars

\* the call just made is one of the operations that save at once and it took
\* effect: createNewYear, saveYear, saveSettings, setCurrentYear with the id
\* of a year, importData that returned success
ImmediateDone ==
  /\ ~last.threw
  /\ \/ last.op \in {"createNewYear", "saveYear", "saveSettings"}
     \/ /\ last.op = "setCurrentYear"
        /\ Truthy(Get(Get(storageData, "years"), last.arg))
     \/ /\ last.op = "importData"
        /\ last.ret.success

\* C13: with a backend that accepts writes, when createNewYear, saveYear,
\* saveSettings, setCurrentYear (known id) or a successful importData returns,
\* the call has written the record and the record is the serialization of the
\* cache, whether or not a deferred write is pending.
C13_WriteThrough ==
  (backend = "ok" /\ ImmediateDone) =>
     /\ last.writes = <<item>>
     /\ item = JSONstringify(storageData, 0)

W13_WriteThroughWhilePending ==
  /\ backend = "ok"
  /\ last.op = "setCurrentYear"
  /\ ImmediateDone
  /\ timers # {}
  /\ item = JSONstringify(storageData, 0)
  /\ AnswerStored(storageData, [yearId |-> "2024-2025", sectionId |-> "past-year",
                                fieldId |-> "a", value |-> Str("hello")])

\* C14: validateAndRepairData reports repaired = true whenever the data it
\* returns differs from the object it was given, the backfill of a year's
\* id, displayName, createdAt or lastModified included.
C14_RepairedWhenChanged ==
  (vrPass >= 1 /\ vrRet.valid /\ vrRet.data # vrArg) => vrRet.repaired

\* C15: when initStorage loads a record that parses to an object and
\* validateAndRepairData changes it, with a backend that accepts writes, the
\* repaired document is written before initStorage returns, the record is
\* the serialization of the cache, and the error callback is not invoked.
C15_RepairIsSaved ==
  [][(CallStep /\ last'.op = "initStorage" /\ backend = "ok" /\ Truthy(item)
        /\ JSONparse(item).ok /\ IsObject(JSONparse(item).value)
        /\ storageData' # JSONparse(item).value)
       => /\ last'.writes = <<item'>>
          /\ item' = JSONstringify(storageData', 0)
          /\ last'.notified = <<>>]_vars

\* every year entry of the document carries its key as its id
IdsMatchKeys(doc) ==
  \A yearId \in Range(Keys(Get(doc, "years"))) :
    Get(Get(Get(doc, "years"), yearId), "id") = Str(yearId)

\* C16: after initStorage, every year entry of the cache has an id equal to
\* the key it is stored under.
C16_IdEqualsKey ==
  last.op = "initStorage" => IdsMatchKeys(storageData)

\* the years of the document that exist keep their createdAt in the other
createdAtKept(before, after) ==
  \A yearId \in Range(Keys(Get(before, "years"))) :
    Get(Get(Get(after, "years"), yearId), "createdAt")
      = Get(Get(Get(before, "years"), yearId), "createdAt")

\* C17: no call of createNewYear, saveYear, saveAnswer, saveCurrentSection,
\* setCurrentYear or saveSettings changes the createdAt of a year entry that
\* exists when the call is made.
C17_CreatedAtImmutable ==
  [][(CallStep /\ storageData # Null
        /\ last'.op \in {"createNewYear", "saveYear", "saveAnswer",
                         "saveCurrentSection", "setCurrentYear", "saveSettings"})
       => createdAtKept(storageData, storageData')]_vars

\* C18: when the stored record parses to a value that is not an object,
\* initStorage reports "corrupt", takes the default document as the cache
\* and, when the backend accepts the write, replaces the record by the
\* serialized default document.
C18_CorruptTopLevel ==
  [][(CallStep /\ last'.op = "initStorage" /\ isLocalStorageAvailable(backend)
        /\ Truthy(item) /\ JSONparse(item).ok /\ BadObject(JSONparse(item).value))
       => /\ last'.reports # <<>>
          /\ last'.reports[1] = "corrupt"
          /\ storageData' = getDefaultData
          /\ (backend = "ok" => item' = JSONstringify(getDefaultData, 0))]_vars

\* C19: createNewYear with an id that is already a key of years leaves the
\* sections, and so the answers, of the existing entry as they are.
C19_NoCollisionLoss ==
  [][(CallStep /\ last'.op = "createNewYear" /\ ~last'.threw
        /\ Truthy(Get(Get(storageData, "years"), last'.arg)))
       => Get(Get(Get(storageData', "years"), last'.arg), "sections")
            = Get(Get(Get(storageData, "years"), last'.arg), "sections")]_vars

\* C20: importData answers a text that does not parse with the invalid-JSON
\* message; a text that parses to a non-object with the not-valid-data
\* message, leaving cache and record as they were; a text that validates but
\* cannot be saved with the could-not-save message; any other text with
\* success, the cache being the validated document.
C20_ImportClassified ==
  [][(CallStep /\ last'.op = "importData") =>
       IF ~JSONparse(last'.arg).ok
         THEN last'.ret = [success |-> FALSE,
                           message |-> "The file is not valid JSON data."]
       ELSE IF BadObject(JSONparse(last'.arg).value)
         THEN /\ last'.ret = [success |-> FALSE,
                 message |-> "The imported data is not valid YearCompass data."]
              /\ storageData' = storageData
              /\ item' = item
       ELSE IF last'.saved # <<TRUE>>
         THEN /\ last'.saved = <<FALSE>>
              /\ last'.ret = [success |-> FALSE,
                   message |-> "Could not save imported data. Storage may be full."]
       ELSE /\ last'.ret = [success |-> TRUE,
                            message |-> "Data imported successfully."]
            /\ storageData'
                 = validateAndRepairData(JSONparse(last'.arg).value, now).data]_vars

W20_CouldNotSave ==
  /\ last.op = "importData"
  /\ last.ret = [success |-> FALSE,
                 message |-> "Could not save imported data. Storage may be full."]
  /\ last.saved = <<FALSE>>
  /\ last.reports = <<"quota">>
  /\ JSONparse(last.arg).ok
  /\ IsObject(JSONparse(last.arg).value)

\* C21: setCurrentYear with an id that is not a key of years changes neither
\* the cache nor the record, attempts no write and leaves the pending timer
\* alone.
C21_UnknownYearNoOp ==
  [][(CallStep /\ last'.op = "setCurrentYear" /\ storageData # Null
        /\ ~Has(Get(storageData, "years"), last'.arg))
       => /\ ~last'.threw
          /\ storageData' = storageData
          /\ item' = item
          /\ last'.saved = <<>>
          /\ last'.writes = <<>>
          /\ timers' = timers]_vars

W21_UnknownYearIgnored ==
  /\ last.op = "setCurrentYear"
  /\ ~last.threw
  /\ storageData # Null
  /\ ~Has(Get(storageData, "years"), last.arg)
  /\ Get(storageData, "currentYear") = Str("2024-2025")
  /\ last.arg = "2025-2026"

\* the properties of the document other than name are the same in both
SameBut(before, after, name) ==
  /\ Range(Keys(before)) \cup {name} = Range(Keys(after)) \cup {name}
  /\ \A key \in Range(Keys(before)) \ {name} : Get(after, key) = Get(before, key)

\* C22: createNewYear(id) on an initialized store leaves years[id] with
\* id = id, no sections, currentSection "intro" and createdAt = lastModified,
\* makes id the current year, leaves the other years and the settings as
\* they were, and calls saveToLocalStorage before it returns, the pending
\* timer untouched.
C22_CreateNewYear ==
  [][(CallStep /\ last'.op = "createNewYear" /\ storageData # Null)
       => /\ ~last'.threw
          /\ Get(Get(Get(storageData', "years"), last'.arg), "id") = Str(last'.arg)
          /\ Get(Get(Get(storageData', "years"), last'.arg), "sections") = EmptyObj
          /\ Get(Get(Get(storageData', "years"), last'.arg), "currentSection")
               = Str("intro")
          /\ Get(Get(Get(storageData', "years"), last'.arg), "createdAt")
               = Get(Get(Get(storageData', "years"), last'.arg), "lastModified")
          /\ Get(Get(Get(storageData', "years"), last'.arg), "createdAt")
               = ToISOString(now)
          /\ Get(storageData', "currentYear") = Str(last'.arg)
          /\ SameBut(Get(storageData, "years"), Get(storageData', "years"), last'.arg)
          /\ \A key \in Range(Keys(storageData)) \ {"years", "currentYear"} :
               Get(storageData', key) = Get(storageData, key)
          /\ Get(storageData', "settings") = Get(storageData, "settings")
          /\ Len(last'.saved) = 1
          /\ timers' = timers
          /\ (backend = "ok" => item' = JSONstringify(storageData', 0))]_vars

W22_SecondYearCreated ==
  /\ last.op = "createNewYear"
  /\ ~last.threw
  /\ last.arg = "2025-2026"
  /\ Keys(Get(storageData, "years")) = <<"2024-2025", "2025-2026">>
  /\ Get(storageData, "currentYear") = Str("2025-2026")
  /\ AnswerStored(storageData, [yearId |-> "2024-2025", sectionId |-> "past-year",
                                fieldId |-> "b", value |-> Str("hello")])
  /\ last.saved = <<TRUE>>

\* the section saveAnswer leaves, given the one it found: a section that was
\* absent is {completed: false, answers: {}} with the field set, one that
\* was there differs in that field alone
SectionAfter(before, after, fieldId, value) ==
  /\ Get(Get(after, "answers"), fieldId) = value
  /\ SameBut(Get(IF Truthy(before) THEN before ELSE NewSection, "answers"),
             Get(after, "answers"), fieldId)
  /\ SameBut(IF Truthy(before) THEN before ELSE NewSection, after, "answers")

\* C23: saveAnswer for an existing year creates the section if absent, sets
\* the field, stamps the year's lastModified, schedules the deferred write
\* and writes nothing; every other field, section, year, currentYear and the
\* settings stay as they were.
C23_SaveAnswerFrame ==
  [][(CallStep /\ last'.op = "saveAnswer" /\ ~last'.threw
        /\ Has(Get(storageData, "years"), last'.arg.yearId))
       => /\ SameBut(storageData, storageData', "years")
          /\ SameBut(Get(storageData, "years"), Get(storageData', "years"),
                     last'.arg.yearId)
          /\ Keys(Get(storageData', "years")) = Keys(Get(storageData, "years"))
          /\ \A key \in Range(Keys(Get(Get(storageData, "years"), last'.arg.yearId)))
                          \ {"sections", "lastModified"} :
               Get(Get(Get(storageData', "years"), last'.arg.yearId), key)
                 = Get(Get(Get(storageData, "years"), last'.arg.yearId), key)
          /\ Get(Get(Get(storageData', "years"), last'.arg.yearId), "lastModified")
               = ToISOString(now)
          /\ SameBut(Get(Get(Get(storageData, "years"), last'.arg.yearId), "sections"),
                     Get(Get(Get(storageData', "years"), last'.arg.yearId), "sections"),
                     last'.arg.sectionId)
          /\ SectionAfter(
               Get(Get(Get(Get(storageData, "years"), last'.arg.yearId), "sections"),
                   last'.arg.sectionId),
               Get(Get(Get(Get(storageData', "years"), last'.arg.yearId), "sections"),
                   last'.arg.sectionId),
               last'.arg.fieldId, last'.arg.value)
          /\ timers' = {[id |-> saveTimeout', due |-> now + DebounceTicks]}
          /\ item' = item
          /\ last'.saved = <<>>]_vars

\* a saveAnswer that made the section, in a year that is not the current one
W23_SectionCreated ==
  /\ last.op = "saveAnswer"
  /\ ~last.threw
  /\ last.arg.yearId = "2024-2025"
  /\ Get(storageData, "currentYear") = Str("2025-2026")
  /\ Get(Get(Get(Get(storageData, "years"), "2024-2025"), "sections"), "past-year")
       = Set(NewSection, "answers", Set(EmptyObj, "a", Str("hello")))
  /\ timers # {}

\* the current year of the document has the section and one of its answers
\* is a string that is not blank
StartedIn(doc, sectionId) ==
  /\ doc # Null
  /\ CurrentYearOk(doc)
  /\ Get(doc, "currentYear") # Null
  /\ \E year \in {Get(Get(doc, "years"), ToPropertyKey(Get(doc, "currentYear")))} :
       /\ Has(Get(year, "sections"), sectionId)
       /\ \E answers \in {Get(Get(Get(year, "sections"), sectionId), "answers")} :
            \E key \in Range(Keys(answers)) :
              /\ TypeOf(Get(answers, key)) = "string"
              /\ Get(answers, key).s \notin {"", "  ", "   "}

\* C24: isSectionStarted(sectionId) returns true exactly when the current
\* year has the section and one of its answers is a string that is not
\* empty once trimmed, false when there is no current year or no such
\* section, and it changes nothing.
C24_SectionStarted ==
  [][(CallStep /\ last'.op = "isSectionStarted")
       => /\ ~last'.threw
          /\ last'.ret = StartedIn(storageData, last'.arg)
          /\ UNCHANGED <<storageData, item, timers, saveTimeout, onStorageError>>]_vars

\* the example of the section with answers {a: "  ", b: "hello"}
W24_BlankAndFilled ==
  /\ last.op = "isSectionStarted"
  /\ last.arg = "past-year"
  /\ last.ret = TRUE
  /\ getCurrentYear(storageData) # Null
  /\ Get(Get(Get(getCurrentYear(storageData), "sections"), "past-year"), "answers")
       = MkObj(<<<<"a", Str("  ")>>, <<"b", Str("hello")>>>>)

\* C25: one callback is registered at most, the one of the latest call of
\* setStorageErrorCallback; every reported error invokes that callback once
\* and no other; with none registered a reported error invokes nothing, and
\* reporting never raises.
C25_CallbackSlot ==
  [][(CallStep \/ TimerStep) =>
       /\ IF last'.op = "setStorageErrorCallback"
            THEN /\ onStorageError' = last'.arg
                 /\ last'.notified = <<>>
            ELSE /\ onStorageError' = onStorageError
                 /\ Len(last'.notified)
                      = IF onStorageError = 0 THEN 0 ELSE Len(last'.reports)
                 /\ \A i \in 1..Len(last'.notified) :
                      last'.notified[i]
                        = [cb |-> onStorageError, type |-> last'.reports[i]]
       /\ (last'.reports # <<>> => ~last'.threw)]_vars

W25_LatestCallbackTold ==
  /\ calls = 3
  /\ onStorageError = 2
  /\ last.op = "initStorage"
  /\ last.notified = <<[cb |-> 2, type |-> "parse"]>>
  /\ item = JSONstringify(getDefaultData, 0)

\* C26: in every state of the initialized store, those reached from the
\* default document through createNewYear, setCurrentYear, saveYear,
\* saveAnswer, saveCurrentSection and saveSettings included, currentYear is
\* null or a key of years.
C26_CurrentYearSound ==
  storageData # Null => CurrentYearOk(storageData)

\* a year made by createNewYear, its current section then set
W26_CreatedThenUsed ==
  /\ calls = 3
  /\ last.op = "saveCurrentSection"
  /\ Get(storageData, "currentYear") = Str("2024-2025")
  /\ Keys(Get(storageData, "years")) = <<"2024-2025">>
  /\ Get(getCurrentYear(storageData), "createdAt") = ToISOString(1)
  /\ Get(getCurrentYear(storageData), "currentSection") = Str("past-year")
  /\ Get(getCurrentYear(storageData), "sections") = EmptyObj

\* the years mapping validateAndRepairData looks the currentYear up in:
\* the one it was given, or {} when that is no object
YearsGiven(data) ==
  IF BadObject(Get(data, "years")) THEN EmptyObj ELSE Get(data, "years")

\* C27: when the currentYear given to validateAndRepairData is set and is
\* no key of the years mapping, the currentYear returned is the last key of
\* that mapping in insertion order, or null when the mapping is empty, and
\* the pass reports a repair.
C27_FallbackIsLastKey ==
  (vrPass >= 1 /\ IsObject(vrArg) /\ Truthy(Get(vrArg, "currentYear"))
     /\ ~Has(YearsGiven(vrArg), ToPropertyKey(Get(vrArg, "currentYear"))))
    => /\ vrRet.valid
       /\ vrRet.repaired
       /\ Get(vrRet.data, "currentYear")
            = IF Len(Keys(YearsGiven(vrArg))) > 0
                THEN Str(Keys(YearsGiven(vrArg))[Len(Keys(YearsGiven(vrArg)))])
                ELSE Null

\* two years given with the later range first: the fallback is the key
\* given last
W27_LastInserted ==
  /\ vrPass = 1
  /\ IsObject(vrArg)
  /\ Get(vrArg, "currentYear") = Str(AbsentYearId)
  /\ Keys(YearsGiven(vrArg)) = <<"2025-2026", "2024-2025">>
  /\ Get(vrRet.data, "currentYear") = Str("2024-2025")
  /\ Has(Get(vrRet.data, "years"), "2024-2025")

\* the record is not the serialization of the cache
Diverged == storageData # Null /\ item # JSONstringify(storageData, 0)

\* C28: on an empty backend that accepts every write, whenever the record
\* differs from the serialization of the cache a deferred write is pending,
\* and the difference does not last: the timer fires and the record is the
\* serialization of the cache.
C28_NoSilentDivergence ==
  /\ [](Diverged => timers # {})
  /\ (Diverged ~> ~Diverged)

W28_CaughtUp ==
  /\ last.op = "timer"
  /\ last.writes = <<item>>
  /\ ~Diverged
  /\ Keys(Get(storageData, "years")) = <<"2025-2026">>
  /\ Get(getCurrentYear(storageData), "currentSection") = Str("past-year")
  /\ Get(getCurrentYear(storageData), "createdAt") = ToISOString(1)

\* the change the call made to the cache is in the document
MutationApplied(call, before, after, clock) ==
  CASE call.op = "createNewYear" ->
         /\ Get(Get(Get(after, "years"), call.arg), "id") = Str(call.arg)
         /\ Get(after, "currentYear") = Str(call.arg)
    [] call.op = "setCurrentYear" -> Get(after, "currentYear") = Str(call.arg)
    [] call.op = "saveYear" ->
         Get(Get(Get(after, "years"), call.arg.yearId), "lastModified")
           = ToISOString(clock)
    [] call.op = "saveSettings" ->
         \A key \in Range(Keys(call.arg)) :
           Get(Get(after, "settings"), key) = Get(call.arg, key)
    [] call.op = "importData" ->
         after = validateAndRepairData(JSONparse(call.arg).value, clock).data
    [] OTHER -> after = before

\* C29: whenever saveToLocalStorage runs while the availability probe
\* fails, it returns false, raises nothing, leaves the record as it was,
\* reports nothing to the callback, and the change made by the call that
\* ran it stays in the cache.
C29_ProbeFails ==
  [][((CallStep \/ TimerStep) /\ ~isLocalStorageAvailable(backend)
        /\ last'.saved # <<>>)
       => /\ last'.saved = <<FALSE>>
          /\ ~last'.threw
          /\ item' = item
          /\ last'.writes = <<>>
          /\ last'.reports = <<>>
          /\ last'.notified = <<>>
          /\ MutationApplied(last', storageData, storageData', now)]_vars

W29_SilentFailure ==
  /\ backend = "disabled"
  /\ onStorageError = 1
  /\ last.op = "createNewYear"
  /\ last.saved = <<FALSE>>
  /\ last.notified = <<>>
  /\ Has(Get(storageData, "years"), last.arg)
  /\ item = JSONstringify(GoodDocument, 0)

\* C30: saveAnswer with a yearId that is no key of years, and
\* saveCurrentSection when there is no current year, change nothing in the
\* cache, write nothing, and leave the pending timer and its handle as they
\* are.
C30_NoTargetNoOp ==
  [][(CallStep
        /\ \/ /\ last'.op = "saveAnswer"
              /\ storageData # Null
              /\ ~Has(Get(storageData, "years"), last'.arg.yearId)
           \/ /\ last'.op = "saveCurrentSection"
              /\ getCurrentYear(storageData) = Null)
       => /\ ~last'.threw
          /\ storageData' = storageData
          /\ timers' = timers
          /\ saveTimeout' = saveTimeout
          /\ item' = item
          /\ last'.saved = <<>>]_vars

\* a saveAnswer for a year that does not exist, made while the write of an
\* earlier answer is pending
W30_PendingKept ==
  /\ last.op = "saveAnswer"
  /\ ~last.threw
  /\ storageData # Null
  /\ ~Has(Get(storageData, "years"), last.arg.yearId)
  /\ timers = {[id |-> saveTimeout, due |-> DebounceTicks]}
  /\ now = 1
  /\ Diverged

====
